---- MODULE Spec2Model ----
(***************************************************************************)
(* Observational memory plugin: the background compression pipeline.       *)
(*                                                                         *)
(* The model follows the current sources:                                  *)
(*   src/src/agents.ts    1-221   runObserver, runReflector, callStructured*)
(*   src/src/agents.ts  405-1003  observationalMemory (the plugin hooks)   *)
(*   src/src/storage.ts   1-86    readMemory, writeMemory, estimateTokens  *)
(*   src/src/storage.ts 353-493   serializeObservations, merge             *)
(*                                                                         *)
(* A hook invocation is one action; a background job is split at the       *)
(* replies of the compression capability, its suspension points.           *)
(*                                                                         *)
(* Texts are TLA+ strings and lengths are real string lengths, but the     *)
(* thresholds and the fixed prompt texts are scaled down (a 30,000 token   *)
(* threshold becomes 20, the continuation hint becomes one letter) so that *)
(* the thresholds are crossed by a handful of messages.                    *)
(***************************************************************************)
EXTENDS Integers, Sequences, FiniteSets, TLC

(***************************************************************************)
(* Bounds and configuration                                                *)
(***************************************************************************)
MaxMsgs == 4              \* messages the host appends, over all sessions
MaxJobs == 2              \* background jobs launched, over all sessions

ObserverThreshold == 20   \* config.observerThreshold, scaled
ReflectorThreshold == 8   \* config.reflectorThreshold, scaled
PrefetchThreshold == ObserverThreshold \div 5   \* floor(threshold * 0.2)

MAX_DEGENERATE_RETRIES == 2
MAX_COMPRESSION_RETRIES == 3

Sessions == {"s1", "s2"}
Driven == {"s1"}          \* the sessions the host uses in Spec
Undefined == "undefined"  \* JavaScript undefined, for string-valued fields
NoMemory == [absent |-> TRUE]       \* cache.has(sessionID) = false
NoFile == [nofile |-> TRUE]         \* no memory file on disk
None == [none |-> TRUE]             \* completedObservation.get() = undefined

(***************************************************************************)
(* Messages                                                                *)
(***************************************************************************)
TextPart(t) ==
  [type |-> "text", text |-> t, input |-> Undefined, output |-> Undefined]
ToolPart(in, out) ==
  [type |-> "tool", text |-> Undefined, input |-> in, output |-> out]
OtherPart ==
  [type |-> "step-start", text |-> Undefined, input |-> Undefined,
   output |-> Undefined]

\* The parts of a message the host appends: a part of a type the estimator
\* skips, a tool call (7 characters of input, 13 of output) and a text of 20
\* characters: 40 characters, 10 tokens.
MsgKinds ==
  { <<OtherPart, ToolPart("{\"a\":1}", "1234567890123"),
      TextPart("12345678901234567890")>> }

HintId == 0               \* id "om-continuation-hint"

JsLen(v) == IF v = Undefined THEN 0 ELSE Len(v)

\* if (v) for a string-valued field: undefined and "" are falsy
Truthy(v) == v # Undefined /\ v # ""

PartChars(part) ==
  IF part.type = "text" THEN Len(part.text)
  ELSE IF part.type = "tool" THEN JsLen(part.input) + JsLen(part.output)
  ELSE 0

RECURSIVE PartsChars(_)
PartsChars(parts) ==
  IF parts = <<>> THEN 0
  ELSE PartChars(Head(parts)) + PartsChars(Tail(parts))

RECURSIVE MessagesChars(_)
MessagesChars(msgs) ==
  IF msgs = <<>> THEN 0
  ELSE PartsChars(Head(msgs).parts) + MessagesChars(Tail(msgs))

CeilDiv4(n) == (n + 3) \div 4

estimateMessageTokens(msgs) == CeilDiv4(MessagesChars(msgs))

estimateTokens(text) == CeilDiv4(Len(text))

\* Array.prototype.slice(start) with a non-negative start (0-based).
Slice(seq, start) ==
  IF start >= Len(seq) THEN <<>> ELSE SubSeq(seq, start + 1, Len(seq))

\* Array.prototype.splice(start, deleteCount, ...items) with non-negative
\* arguments (0-based start): both are clamped to the array.
Splice(seq, start, deleteCount, items) ==
  LET st == IF start > Len(seq) THEN Len(seq) ELSE start
      dc == IF deleteCount > Len(seq) - st THEN Len(seq) - st ELSE deleteCount
  IN SubSeq(seq, 1, st) \o items \o SubSeq(seq, st + dc + 1, Len(seq))

(***************************************************************************)
(* Observation logs                                                        *)
(***************************************************************************)
Entry(p, t, x, ch) == [priority |-> p, time |-> t, text |-> x, children |-> ch]
Group(d, es) == [date |-> d, entries |-> es]

\* The three priority emojis are two UTF-16 code units each.
Emoji(priority) ==
  IF priority = "high" THEN "#R"
  ELSE IF priority = "medium" THEN "#Y" ELSE "#G"

RECURSIVE JoinLines(_, _)
JoinLines(strs, sep) ==
  IF strs = <<>> THEN ""
  ELSE IF Len(strs) = 1 THEN strs[1]
  ELSE strs[1] \o sep \o JoinLines(Tail(strs), sep)

SerializeEntry(entry) ==
  LET line == "* " \o Emoji(entry.priority) \o " (" \o entry.time \o ") "
              \o entry.text
      childLines == [i \in 1..Len(entry.children) |->
                       "  * -> " \o entry.children[i].text]
  IN IF Len(entry.children) > 0
     THEN line \o "\n" \o JoinLines(childLines, "\n")
     ELSE line

SerializeGroup(group) ==
  "Date: " \o group.date \o "\n" \o
  JoinLines([i \in 1..Len(group.entries) |-> SerializeEntry(group.entries[i])],
            "\n")

serializeObservations(groups) ==
  IF Len(groups) = 0 THEN ""
  ELSE JoinLines([i \in 1..Len(groups) |-> SerializeGroup(groups[i])], "\n\n")

estimateObservationTokens(groups) == estimateTokens(serializeObservations(groups))

\* A variant of EntriesFor that stops at the first group of the date
\* instead of accumulating all of them.
RECURSIVE EntriesForFirstGroup(_, _)
EntriesForFirstGroup(groups, d) ==
  IF groups = <<>> THEN <<>>
  ELSE IF Head(groups).date = d THEN Head(groups).entries
       ELSE EntriesForFirstGroup(Tail(groups), d)

\* byDate.get(d) once both loops are done: the entries of every group of
\* that date, existing ones first.
RECURSIVE EntriesFor(_, _)
EntriesFor(groups, d) ==
  IF groups = <<>> THEN <<>>
  ELSE (IF Head(groups).date = d THEN Head(groups).entries ELSE <<>>)
       \o EntriesFor(Tail(groups), d)

RECURSIVE RebuildGroups(_, _, _)
RebuildGroups(rest, seenDates, all) ==
  IF rest = <<>> THEN <<>>
  ELSE IF Head(rest).date \in seenDates
       THEN RebuildGroups(Tail(rest), seenDates, all)
       ELSE <<Group(Head(rest).date, EntriesFor(all, Head(rest).date))>>
            \o RebuildGroups(Tail(rest), seenDates \cup {Head(rest).date}, all)

\* A variant of mergeObservationGroups whose second loop sets a date's
\* entries to the incoming group's instead of appending them.
mergeOverwriting(existing, incoming) ==
  LET all == existing \o incoming
      merged == RebuildGroups(all, {}, all)
      last(d) == CHOOSE i \in 1..Len(incoming) :
                   /\ incoming[i].date = d
                   /\ \A k \in (i + 1)..Len(incoming) : incoming[k].date # d
  IN [i \in 1..Len(merged) |->
        IF \E k \in 1..Len(incoming) : incoming[k].date = merged[i].date
        THEN Group(merged[i].date, incoming[last(merged[i].date)].entries)
        ELSE merged[i]]

\* A variant of mergeObservationGroups that does not group by date.
mergeByConcatenation(existing, incoming) == existing \o incoming

\* A variant of mergeObservationGroups whose rebuild loop scans the incoming
\* groups before the existing ones.
mergeIncomingDatesFirst(existing, incoming) ==
  RebuildGroups(incoming \o existing, {}, existing \o incoming)

mergeObservationGroups(existing, incoming) ==
  RebuildGroups(existing \o incoming, {}, existing \o incoming)

(***************************************************************************)
(* Session memory                                                          *)
(***************************************************************************)
DEFAULT_MEMORY ==
  [observations |-> <<>>,
   currentTask |-> Undefined,
   suggestedResponse |-> Undefined,
   lastObservedMessageIndex |-> -1,
   lastObservedTokens |-> 0,
   lastObservedAt |-> 0,
   lastReflectedAt |-> 0]

\* readMemory: the file's content, or a fresh default when there is none.
\* typeof data.observations === "string".  A TLA+ value carries no type, so
\* a parsed file whose observations are text has the field
\* typeofObservations; the files the plugin writes do not.
IsLegacyFile(data) == "typeofObservations" \in DOMAIN data

\* { ...data, observations: [] }
WithoutLegacyText(data) ==
  [f \in DOMAIN data \ {"typeofObservations"} |->
     IF f = "observations" THEN <<>> ELSE data[f]]

readMemory(file) ==
  IF file = NoFile THEN DEFAULT_MEMORY
  ELSE IF IsLegacyFile(file) THEN WithoutLegacyText(file)
  ELSE file

(***************************************************************************)
(* The compression capability (callStructured): what one call can yield.   *)
(* kind "throw": the call raises; kind "null": no structured output;       *)
(* kind "result": a structured result.  degenerate stands for what         *)
(* detectDegenerateRepetition answers on the serialized observations: the  *)
(* texts it flags are at least 2,000 characters long and are not written   *)
(* out here.                                                               *)
(***************************************************************************)
Reply(k, obs, task, sugg, deg) ==
  [kind |-> k, observations |-> obs, currentTask |-> task,
   suggestedResponse |-> sugg, degenerate |-> deg]

ThrowReply == Reply("throw", <<>>, Undefined, Undefined, FALSE)
NullReply == Reply("null", <<>>, Undefined, Undefined, FALSE)
\* a structured result without any observation: { observations: [] }
EmptyReply == Reply("result", <<>>, Undefined, Undefined, FALSE)

\* The extraction replies: a failure, no output, one observation with both
\* hints, no observation and no hint, and a repetition loop.
ObserverReplies ==
  { ThrowReply, NullReply,
    Reply("result", <<Group("d1", <<Entry("high", "t", "a", <<>>)>>)>>,
          "T", "S", FALSE),
    EmptyReply,
    Reply("result", <<Group("d1", <<Entry("low", "t", "loop", <<>>)>>)>>,
          Undefined, Undefined, TRUE) }

\* The reflector's replies depend on the log it was given: "grown" is the
\* input followed by one more group, which is never smaller than the input.
\* REFLECTOR_OUTPUT_SCHEMA asks for no minimum number of groups or entries:
\* a reply may have no group, or groups without entries.
\* A log of groups without entries that is not smaller than the input: a
\* group serializes to more than four characters, so as many groups as the
\* input has tokens are estimated at no fewer tokens.
HollowLog(observations) ==
  [i \in 1..estimateObservationTokens(observations) |-> Group("d1", <<>>)]

ReflectorReplies(observations) ==
  { ThrowReply, NullReply,
    Reply("result", <<Group("d1", <<Entry("high", "t", "z", <<>>)>>)>>,
          Undefined, "R", FALSE),
    Reply("result",
          observations \o <<Group("d1", <<Entry("medium", "t", "y", <<>>)>>)>>,
          Undefined, Undefined, FALSE),
    EmptyReply,
    Reply("result", <<Group("d1", <<>>)>>, Undefined, Undefined, FALSE),
    Reply("result", HollowLog(observations), Undefined, Undefined, FALSE),
    Reply("result", <<Group("d1", <<Entry("low", "t", "loop", <<>>)>>)>>,
          Undefined, Undefined, TRUE) }

(***************************************************************************)
(* State                                                                   *)
(***************************************************************************)
VARIABLES
  messages,             \* session -> output.messages, the live sequence
  nextId,               \* id of the next message the host appends
  cache,                \* cache: sessionID -> SessionMemory
  disk,                 \* the memory files written by writeMemory
  completedObservation, \* completedObservation: sessionID -> result
  observerInFlight,     \* observerInFlight: set of sessionIDs
  jobs,                 \* the background jobs started so far, in order
  lastTurn,             \* session -> what the hook invocation that led to
                        \* this state did ("none" after any other step)
  call                  \* a call of one of the exported pure functions:
                        \* its arguments and what it returned (NoCall
                        \* while the plugin runs)

vars == <<messages, nextId, cache, disk, completedObservation,
          observerInFlight, jobs, lastTurn, call>>

NoCall == [fn |-> "none"]

\* The value of call in a traced run: the plugin runs, and the record of a
\* finished job keeps the messages the job had captured, as history.
TraceCall == [fn |-> "trace"]

\* outcome: "none" (not a hook invocation), "skipped" (no session id),
\* "applied", "error" (the hook rejected) or "passed" (the background
\* observer zone was reached)
TurnLog(o, st, la) == [outcome |-> o, stale |-> st, launched |-> la]

NoTurn == [s \in Sessions |-> TurnLog("none", FALSE, FALSE)]

\* The plugin's state after construction.
PluginInit ==
  /\ messages = [s \in Sessions |-> <<>>]
  /\ nextId = 1
  /\ cache = [s \in Sessions |-> NoMemory]
  /\ disk = [s \in Sessions |-> NoFile]
  /\ completedObservation = [s \in Sessions |-> None]
  /\ observerInFlight = {}
  /\ jobs = <<>>
  /\ lastTurn = NoTurn

Init == PluginInit /\ call = NoCall

(***************************************************************************)
(* The host: it appends messages to a session's sequence and its native    *)
(* compaction drops the oldest messages.                                   *)
(***************************************************************************)
\* A variant of HostAppend for a job that holds the live array itself
\* instead of a slice of it: the appended message also lands in the input
\* of the session's running job.
HostAppendIntoJobs(s, parts) ==
  LET message == [info |-> [id |-> nextId, sessionID |-> s], parts |-> parts]
  IN /\ nextId <= MaxMsgs
     /\ messages' = [messages EXCEPT ![s] = Append(@, message)]
     /\ jobs' = [j \in 1..Len(jobs) |->
          IF jobs[j].sessionID = s /\ jobs[j].pc \in {"observer", "reflector"}
          THEN [jobs[j] EXCEPT !.unobserved = Append(@, message)]
          ELSE jobs[j]]
     /\ nextId' = nextId + 1
     /\ lastTurn' = NoTurn
     /\ UNCHANGED <<cache, disk, completedObservation, observerInFlight, call>>

HostAppend(s, parts) ==
  /\ nextId <= MaxMsgs
  /\ messages' = [messages EXCEPT ![s] =
       Append(@, [info |-> [id |-> nextId, sessionID |-> s], parts |-> parts])]
  /\ nextId' = nextId + 1
  /\ lastTurn' = NoTurn
  /\ UNCHANGED <<cache, disk, completedObservation, observerInFlight, jobs,
                 call>>

NativeCompaction(s, k) ==
  /\ k \in 1..Len(messages[s])
  /\ messages' = [messages EXCEPT ![s] = Slice(@, k)]
  /\ lastTurn' = NoTurn
  /\ UNCHANGED <<nextId, cache, disk, completedObservation, observerInFlight,
                 jobs, call>>

(***************************************************************************)
(* The messages.transform hook                                             *)
(***************************************************************************)
\* CONTINUATION_HINT and the fixed sentences of the continuation message,
\* scaled down.
CONTINUATION_HINT == "H"
RecentNotice == "!"
PreviousTaskLabel == "p:"
CurrentTaskLabel == "c:"
SuggestedLabel == "s:"

\* A variant of buildContinuationMessage that never looks at
\* hasRecentMessages: both hints are always given as fresh.
buildContinuationMessageFresh(memory, hasRecentMessages) ==
  "<r>" \o CONTINUATION_HINT \o
  (IF Truthy(memory.currentTask)
   THEN CurrentTaskLabel \o memory.currentTask ELSE "") \o
  (IF Truthy(memory.suggestedResponse)
   THEN SuggestedLabel \o memory.suggestedResponse ELSE "") \o
  "</r>"

buildContinuationMessage(memory, hasRecentMessages) ==
  LET open == "<r>" \o CONTINUATION_HINT
      close == "</r>"
      body ==
        IF hasRecentMessages
        THEN RecentNotice \o
             (IF Truthy(memory.currentTask)
              THEN PreviousTaskLabel \o memory.currentTask ELSE "")
        ELSE (IF Truthy(memory.currentTask)
              THEN CurrentTaskLabel \o memory.currentTask ELSE "") \o
             (IF Truthy(memory.suggestedResponse)
              THEN SuggestedLabel \o memory.suggestedResponse ELSE "")
  IN open \o body \o close

\* A variant of the apply condition without the threshold test.
ApplyWheneverCompleted(completed, unobservedTokens) == completed # None

\* apply condition: a cached result exists and the context is large enough
ApplyCondition(completed, unobservedTokens) ==
  completed # None /\ unobservedTokens >= ObserverThreshold

\* A variant of the stale guard that lets every cached range through.
StaleNever(completed, messagesLength) == FALSE

\* stale guard: the cached range no longer fits the message array
StaleResult(completed, messagesLength) ==
  completed.firstUnobservedIdx + completed.observedCount > messagesLength

HasRecentMessages(completed, messagesLength) ==
  messagesLength - (completed.firstUnobservedIdx + completed.observedCount) > 0

\* Variants of the launch guard: one that does not test observerInFlight,
\* one that does not test completedObservation, and one that waits for the
\* observer threshold.
LaunchIgnoringInFlight(unobservedTokens, sessionID, inFlight, completedMap) ==
  /\ unobservedTokens >= PrefetchThreshold
  /\ completedMap[sessionID] = None

LaunchIgnoringCompleted(unobservedTokens, sessionID, inFlight, completedMap) ==
  /\ unobservedTokens >= PrefetchThreshold
  /\ sessionID \notin inFlight

LaunchAtObserverThreshold(unobservedTokens, sessionID, inFlight, completedMap) ==
  /\ unobservedTokens >= ObserverThreshold
  /\ sessionID \notin inFlight
  /\ completedMap[sessionID] = None

\* launch guard of the background observer zone
LaunchCondition(unobservedTokens, sessionID, inFlight, completedMap) ==
  /\ unobservedTokens >= PrefetchThreshold
  /\ sessionID \notin inFlight
  /\ completedMap[sessionID] = None

\* The continuation message: its info is spread from the message before
\* the splice point (none when the splice point is index 0).
ContinuationHint(msgs, completed, hasRecentMessages) ==
  [info |-> [id |-> HintId,
             sessionID |-> IF completed.firstUnobservedIdx >= 1
                              /\ completed.firstUnobservedIdx <= Len(msgs)
                           THEN msgs[completed.firstUnobservedIdx].info.sessionID
                           ELSE Undefined],
   parts |-> <<TextPart(buildContinuationMessage(completed.memory,
                                                 hasRecentMessages))>>]

\* A variant of the two splices in the opposite order: the continuation
\* message is inserted first and then falls inside the dropped range.
ApplySpliceSwapped(msgs, completed, hasRecentMessages) ==
  Splice(Splice(msgs, completed.firstUnobservedIdx, 0,
                <<ContinuationHint(msgs, completed, hasRecentMessages)>>),
         completed.firstUnobservedIdx, completed.observedCount, <<>>)

\* Drop the observed messages, then insert the continuation message at the
\* splice point.
ApplySplice(msgs, completed, hasRecentMessages) ==
  LET dropped == Splice(msgs, completed.firstUnobservedIdx,
                        completed.observedCount, <<>>)
  IN Splice(dropped, completed.firstUnobservedIdx, 0,
            <<ContinuationHint(dropped, completed, hasRecentMessages)>>)

\* A variant of the delete that leaves the entry in the map.
DeleteNothing(completedMap, sessionID) == completedMap

\* A variant of the delete that empties the map (clear() for delete()).
DeleteEverySession(completedMap, sessionID) == [s \in Sessions |-> None]

\* completedObservation.delete(sessionID)
DeleteCompleted(completedMap, sessionID) ==
  [completedMap EXCEPT ![sessionID] = None]

\* getMemory reads the memory file only when the cache has no entry
getMemoryReads(cached) == cached = NoMemory

\* A variant of NewJob in which the call returns only once the first call
\* of the extraction capability has been awaited and rejected.
NewJobAwaited(sessionID, unobserved, currentMemory, firstUnobservedIdx, unobservedTokens) ==
  [sessionID |-> sessionID, pc |-> "observer", attempt |-> 1, level |-> 0,
   unobserved |-> unobserved, currentMemory |-> currentMemory,
   firstUnobservedIdx |-> firstUnobservedIdx,
   unobservedTokens |-> unobservedTokens,
   newMemory |-> currentMemory, guidance |-> 0]

\* A variant of NewJob whose range always starts at the head of the
\* sequence.
NewJobFromHead(sessionID, unobserved, currentMemory, firstUnobservedIdx, unobservedTokens) ==
  [sessionID |-> sessionID, pc |-> "observer", attempt |-> 0, level |-> 0,
   unobserved |-> unobserved, currentMemory |-> currentMemory,
   firstUnobservedIdx |-> 0,
   unobservedTokens |-> unobservedTokens,
   newMemory |-> currentMemory, guidance |-> 0]

\* startBackgroundObserver: the job's inputs are captured at the call.
NewJob(sessionID, unobserved, currentMemory, firstUnobservedIdx, unobservedTokens) ==
  [sessionID |-> sessionID, pc |-> "observer", attempt |-> 0, level |-> 0,
   unobserved |-> unobserved, currentMemory |-> currentMemory,
   firstUnobservedIdx |-> firstUnobservedIdx,
   unobservedTokens |-> unobservedTokens,
   newMemory |-> currentMemory, guidance |-> 0]

\* One invocation of the hook, from the read of the session id to its
\* return.  The hook suspends at getMemory and at writeMemory; the host
\* awaits it, and a background job shares only completedObservation and
\* observerInFlight with it, which the hook reads and writes in the one
\* synchronous stretch between the two suspensions, so the invocation is
\* one step.  writeFails: writeMemory rejects (mkdir, writeFile or rename
\* failed); nothing in the hook catches it, so the hook's promise rejects.
Hook(s, writeFails) ==
  LET sessionID == IF Len(messages[s]) = 0 THEN Undefined
                   ELSE messages[s][1].info.sessionID
  IN IF sessionID = Undefined
     THEN /\ ~writeFails
          /\ lastTurn' = [lastTurn EXCEPT ![s] = TurnLog("skipped", FALSE, FALSE)]
          /\ UNCHANGED <<messages, nextId, cache, disk, completedObservation,
                         observerInFlight, jobs, call>>
     ELSE
       LET loaded == IF getMemoryReads(cache[sessionID])
                     THEN [cache EXCEPT ![sessionID] = readMemory(disk[sessionID])]
                     ELSE cache
           memory == loaded[sessionID]
           firstUnobservedIdx == memory.lastObservedMessageIndex + 1
           unobserved == Slice(messages[s], firstUnobservedIdx)
           unobservedTokens == estimateMessageTokens(unobserved)
           completed == completedObservation[sessionID]
           inApplyZone == ApplyCondition(completed, unobservedTokens)
           stale == inApplyZone /\ StaleResult(completed, Len(messages[s]))
           applies == inApplyZone /\ ~stale
           remaining == IF inApplyZone
                        THEN DeleteCompleted(completedObservation, sessionID)
                        ELSE completedObservation
           launches == /\ ~applies
                       /\ LaunchCondition(unobservedTokens, sessionID,
                                          observerInFlight, remaining)
       IN /\ launches => Len(jobs) < MaxJobs
          /\ writeFails => applies
          /\ completedObservation' = remaining
          /\ IF applies
             THEN \* saveMemory sets the cache, then awaits writeMemory
                  /\ cache' = [loaded EXCEPT ![sessionID] = completed.memory]
                  /\ IF writeFails
                     THEN /\ lastTurn' = [lastTurn EXCEPT ![s] =
                               TurnLog("error", FALSE, FALSE)]
                          /\ UNCHANGED <<messages, disk>>
                     ELSE /\ disk' = [disk EXCEPT ![sessionID] = completed.memory]
                          /\ messages' = [messages EXCEPT ![s] =
                               ApplySplice(@, completed,
                                 HasRecentMessages(completed, Len(messages[s])))]
                          /\ lastTurn' = [lastTurn EXCEPT ![s] =
                               TurnLog("applied", FALSE, FALSE)]
                  /\ UNCHANGED <<observerInFlight, jobs>>
             ELSE /\ cache' = loaded
                  /\ lastTurn' = [lastTurn EXCEPT ![s] =
                       TurnLog("passed", stale, launches)]
                  /\ IF launches
                     THEN /\ observerInFlight' = observerInFlight \cup {sessionID}
                          /\ jobs' = Append(jobs,
                               NewJob(sessionID, unobserved, memory,
                                      firstUnobservedIdx, unobservedTokens))
                     ELSE UNCHANGED <<observerInFlight, jobs>>
                  /\ UNCHANGED <<messages, disk>>
          /\ UNCHANGED <<nextId, call>>

\* The system.transform and session.compacting hooks: of the state, they
\* touch the cache only, through getMemory.
SystemTransform(s) ==
  /\ cache' = IF getMemoryReads(cache[s])
              THEN [cache EXCEPT ![s] = readMemory(disk[s])] ELSE cache
  /\ lastTurn' = NoTurn
  /\ UNCHANGED <<messages, nextId, disk, completedObservation,
                 observerInFlight, jobs, call>>

(***************************************************************************)
(* The background job: runObserver, merge, runReflector, cache the result  *)
(***************************************************************************)
\* Date.now(), as a logical time: the ordinal of the job that reads it.
Now(j) == j

\* runObserver: a null or degenerate reply is retried until the last attempt
ObserverRejects(reply) == reply.kind = "null" \/ reply.degenerate

\* A variant of ObserverRetries with one retry instead of two.
ObserverRetriesOnce(attempt, reply) ==
  ObserverRejects(reply) /\ attempt < MAX_DEGENERATE_RETRIES - 1

ObserverRetries(attempt, reply) ==
  ObserverRejects(reply) /\ attempt < MAX_DEGENERATE_RETRIES

ObserverResult(reply) ==
  IF ObserverRejects(reply)
  THEN [observations |-> <<>>, currentTask |-> Undefined,
        suggestedResponse |-> Undefined, degenerate |-> TRUE]
  ELSE [observations |-> reply.observations,
        currentTask |-> reply.currentTask,
        suggestedResponse |-> reply.suggestedResponse, degenerate |-> FALSE]

\* !x for an array x: an array, even an empty one, is truthy
NotArray(x) == FALSE

\* "skipping": the job ends without a result
JobSkips(result) == result.degenerate \/ NotArray(result.observations)

\* A variant of ObservedMemory whose index forgets the offset of the slice.
ObservedMemoryNoOffset(job, result, now) ==
  [job.currentMemory EXCEPT
     !.observations = mergeObservationGroups(@, result.observations),
     !.currentTask = result.currentTask,
     !.suggestedResponse = result.suggestedResponse,
     !.lastObservedMessageIndex = Len(job.unobserved) - 1,
     !.lastObservedTokens = job.unobservedTokens,
     !.lastObservedAt = now]

ObservedMemory(job, result, now) ==
  [job.currentMemory EXCEPT
     !.observations = mergeObservationGroups(@, result.observations),
     !.currentTask = result.currentTask,
     !.suggestedResponse = result.suggestedResponse,
     !.lastObservedMessageIndex =
        job.firstUnobservedIdx + Len(job.unobserved) - 1,
     !.lastObservedTokens = job.unobservedTokens,
     !.lastObservedAt = now]

\* runReflector: an empty, null or degenerate reply, and a reply that is not
\* smaller than the input, lead to the next level until the last one
ReflectorRejects(reply) ==
  reply.kind = "null" \/ Len(reply.observations) = 0 \/ reply.degenerate

ReflectorShrinks(reply, observations) ==
  estimateTokens(serializeObservations(reply.observations))
    < estimateTokens(serializeObservations(observations))

\* A variant of ReflectorRetries that settles for a result that is not
\* smaller than its input.
ReflectorSettlesForGrown(level, reply, observations) ==
  level < MAX_COMPRESSION_RETRIES /\ ReflectorRejects(reply)

ReflectorRetries(level, reply, observations) ==
  /\ level < MAX_COMPRESSION_RETRIES
  /\ ReflectorRejects(reply) \/ ~ReflectorShrinks(reply, observations)

ReflectorResult(reply, observations) ==
  IF ReflectorRejects(reply)
  THEN [observations |-> observations, suggestedResponse |-> Undefined,
        degenerate |-> TRUE]
  ELSE [observations |-> reply.observations,
        suggestedResponse |-> reply.suggestedResponse, degenerate |-> FALSE]

\* A variant of ReflectedMemory that adopts what runReflector returned
\* without looking at the degenerate flag.
ReflectedMemoryUnflagged(newMemory, reflected, now) ==
  [newMemory EXCEPT !.observations = reflected.observations,
                    !.lastReflectedAt = now]

ReflectedMemory(newMemory, reflected, now) ==
  IF ~reflected.degenerate /\ ~NotArray(reflected.observations)
  THEN [newMemory EXCEPT
          !.observations = reflected.observations,
          !.suggestedResponse =
             IF reflected.suggestedResponse # Undefined
             THEN reflected.suggestedResponse ELSE @,
          !.lastReflectedAt = now]
  ELSE newMemory

CompletedOf(job, memory) ==
  [memory |-> memory, firstUnobservedIdx |-> job.firstUnobservedIdx,
   observedCount |-> Len(job.unobserved)]

\* A finished job keeps its session and how it ended and, in a traced run,
\* the slice it had captured.
Finished(job, how) ==
  [NewJob(job.sessionID, IF call = TraceCall THEN job.unobserved ELSE <<>>, DEFAULT_MEMORY, 0, 0) EXCEPT !.pc = how]

\* A variant of JobFails without the finally block: the session stays in
\* observerInFlight.
JobFailsInFlight(j) ==
  /\ jobs' = [jobs EXCEPT ![j] = Finished(@, "failed")]
  /\ UNCHANGED <<completedObservation, observerInFlight>>

\* catch / early return, then finally: nothing is cached
JobFails(j) ==
  /\ jobs' = [jobs EXCEPT ![j] = Finished(@, "failed")]
  /\ observerInFlight' = observerInFlight \ {jobs[j].sessionID}
  /\ UNCHANGED completedObservation

\* A variant of JobSucceeds that stores the result under every session.
JobSucceedsEverySlot(j, memory) ==
  /\ completedObservation' =
       [s \in Sessions |-> CompletedOf(jobs[j], memory)]
  /\ jobs' = [jobs EXCEPT ![j] = Finished(@, "succeeded")]
  /\ observerInFlight' = observerInFlight \ {jobs[j].sessionID}

\* completedObservation.set, then finally
JobSucceeds(j, memory) ==
  /\ completedObservation' = [completedObservation EXCEPT
       ![jobs[j].sessionID] = CompletedOf(jobs[j], memory)]
  /\ jobs' = [jobs EXCEPT ![j] = Finished(@, "succeeded")]
  /\ observerInFlight' = observerInFlight \ {jobs[j].sessionID}

\* buildReflectorPrompt(observations, compressionLevel = 0): the prompt ends
\* with COMPRESSION_GUIDANCE[compressionLevel]; the model keeps the level of
\* the guidance a prompt carries.
buildReflectorPrompt(compressionLevel) == compressionLevel

\* runReflector: the prompt of the attempt at a level.  The call names no
\* compression level, so the default applies on every attempt.
ReflectorPrompt(level) == buildReflectorPrompt(0)

\* A call of the extraction capability returns or raises.
ObserverReply(j, reply) ==
  /\ j \in 1..Len(jobs)
  /\ jobs[j].pc = "observer"
  /\ LET job == jobs[j]
         result == ObserverResult(reply)
         newMemory == ObservedMemory(job, result, Now(j))
     IN IF reply.kind = "throw" THEN JobFails(j)
        ELSE IF ObserverRetries(job.attempt, reply)
        THEN /\ jobs' = [jobs EXCEPT ![j].attempt = @ + 1]
             /\ UNCHANGED <<completedObservation, observerInFlight>>
        ELSE IF JobSkips(result) THEN JobFails(j)
        ELSE IF estimateObservationTokens(newMemory.observations)
                  >= ReflectorThreshold
        THEN /\ jobs' = [jobs EXCEPT ![j].pc = "reflector",
                                     ![j].newMemory = newMemory,
                                     ![j].guidance = ReflectorPrompt(0)]
             /\ UNCHANGED <<completedObservation, observerInFlight>>
        ELSE JobSucceeds(j, newMemory)
  /\ lastTurn' = NoTurn
  /\ UNCHANGED <<messages, nextId, cache, disk, call>>

\* A call of the condensation capability returns or raises.
ReflectorReply(j, reply) ==
  /\ j \in 1..Len(jobs)
  /\ jobs[j].pc = "reflector"
  /\ LET job == jobs[j]
         observations == job.newMemory.observations
         reflected == ReflectorResult(reply, observations)
     IN IF reply.kind = "throw" THEN JobFails(j)
        ELSE IF ReflectorRetries(job.level, reply, observations)
        THEN /\ jobs' = [jobs EXCEPT
                  ![j].level = @ + 1,
                  ![j].guidance = ReflectorPrompt(job.level + 1)]
             /\ UNCHANGED <<completedObservation, observerInFlight>>
        ELSE JobSucceeds(j, ReflectedMemory(job.newMemory, reflected, Now(j)))
  /\ lastTurn' = NoTurn
  /\ UNCHANGED <<messages, nextId, cache, disk, call>>

(***************************************************************************)
(* Specification                                                           *)
(***************************************************************************)
Next ==
  \/ \E s \in Driven, parts \in MsgKinds : HostAppend(s, parts)
  \/ \E s \in Driven, k \in 1..MaxMsgs : NativeCompaction(s, k)
  \/ \E s \in Driven : SystemTransform(s)
  \/ \E s \in Driven, writeFails \in BOOLEAN : Hook(s, writeFails)
  \/ \E j \in 1..MaxJobs, reply \in ObserverReplies : ObserverReply(j, reply)
  \/ \E j \in 1..MaxJobs :
       \E reply \in ReflectorReplies(IF j <= Len(jobs)
                                     THEN jobs[j].newMemory.observations
                                     ELSE <<>>) : ReflectorReply(j, reply)

Spec == Init /\ [][Next]_vars

(***************************************************************************)
(* Observables of the properties                                           *)
(***************************************************************************)
\* The session's memory as getMemory answers it: the cache entry, or what
\* the memory file holds when the cache has no entry.
SessionMemoryOf(s) ==
  IF cache[s] = NoMemory THEN readMemory(disk[s]) ELSE cache[s]

\* The token estimate of the messages after lastObservedMessageIndex.
UnobservedTokens(s) ==
  estimateMessageTokens(
    Slice(messages[s], SessionMemoryOf(s).lastObservedMessageIndex + 1))

\* The jobs of a session that were launched and have not finished.
ActiveJobs(s) ==
  {j \in 1..Len(jobs) :
     jobs[j].sessionID = s /\ jobs[j].pc \in {"observer", "reflector"}}

\* This step launches a job for the session.
LaunchedFor(s) ==
  \E j \in 1..Len(jobs') : j > Len(jobs) /\ jobs'[j].sessionID = s

\* This step is a hook invocation on the session's sequence.
Turn(s) == \E writeFails \in BOOLEAN : Hook(s, writeFails)

\* The sequence's first message carries a session id, so that the invocation
\* gets past its first test.
Recognised(s) ==
  Len(messages[s]) > 0 /\ messages[s][1].info.sessionID # Undefined

\* The end of the range of the session's cached result.
RangeEnd(s) ==
  completedObservation[s].firstUnobservedIdx
    + completedObservation[s].observedCount

\* This step removes the session's cached result.
Consumed(s) ==
  completedObservation[s] # None /\ completedObservation'[s] = None

\* This step removes the cached result and changes the sequence or the memory.
Applies(s) ==
  /\ Consumed(s)
  /\ messages'[s] # messages[s] \/ SessionMemoryOf(s)' # SessionMemoryOf(s)

\* The messages of the sequence that this step leaves out of the new one.
RemovedBy(s) ==
  {i \in 1..Len(messages[s]) :
     \A k \in 1..Len(messages'[s]) : messages'[s][k] # messages[s][i]}

\* The hook invocation finds a cached result, enough unobserved tokens and a
\* range that fits, and returns normally.
ApplyTurn(s) ==
  /\ Hook(s, FALSE)
  /\ completedObservation[s] # None
  /\ UnobservedTokens(s) >= ObserverThreshold
  /\ RangeEnd(s) <= Len(messages[s])

Contains(text, sub) ==
  \E i \in 1..(Len(text) - Len(sub) + 1) :
    SubSeq(text, i, i + Len(sub) - 1) = sub

(***************************************************************************)
(* C1: for every session, at most one background job is launched and not   *)
(* yet finished at any time, and a step taken while the session's job is   *)
(* active launches no job for the session.                                 *)
(***************************************************************************)
C1_OneActiveJob ==
  /\ [](\A s \in Sessions : Cardinality(ActiveJobs(s)) <= 1)
  /\ [][\A s \in Sessions : ActiveJobs(s) # {} => ~LaunchedFor(s)]_vars

\* A hook invocation with tokens above the prefetch threshold has just found
\* the job active and launched nothing.
C1_Witness ==
  \E s \in Sessions :
    /\ ActiveJobs(s) # {}
    /\ lastTurn[s] = TurnLog("passed", FALSE, FALSE)
    /\ UnobservedTokens(s) >= PrefetchThreshold

(***************************************************************************)
(* C2: a step that applies a cached result finds the end of its range      *)
(* within the sequence, and leaves out of the new sequence no more         *)
(* messages than the range is long.                                        *)
(***************************************************************************)
C2_ApplyWithinRange ==
  [][\A s \in Sessions :
       Applies(s) =>
         /\ RangeEnd(s) <= Len(messages[s])
         /\ Cardinality(RemovedBy(s)) <= completedObservation[s].observedCount
    ]_vars

\* An apply whose range was the whole sequence: only the continuation
\* message is left.
C2_Witness ==
  \E s \in Sessions :
    /\ lastTurn[s].outcome = "applied"
    /\ Len(messages[s]) = 1
    /\ messages[s][1].info.id = HintId

C4_StaleDiscard ==
  [][\A s \in Sessions :
       ( /\ Turn(s)
         /\ completedObservation[s] # None
         /\ UnobservedTokens(s) >= ObserverThreshold
         /\ RangeEnd(s) > Len(messages[s]) )
       => /\ completedObservation'[s] = None
          /\ messages'[s] = messages[s]
          /\ SessionMemoryOf(s)' = SessionMemoryOf(s)
          /\ LaunchedFor(s) <=>
               ( /\ UnobservedTokens(s) >= PrefetchThreshold
                 /\ s \notin observerInFlight )
    ]_vars

\* A stale result has just been discarded and a fresh job launched.
C4_Witness ==
  \E s \in Sessions :
    /\ lastTurn[s] = TurnLog("passed", TRUE, TRUE)
    /\ completedObservation[s] = None
    /\ ActiveJobs(s) # {}

C6_IndexMonotone ==
  [][\A s \in Sessions :
       SessionMemoryOf(s)'.lastObservedMessageIndex
         >= SessionMemoryOf(s).lastObservedMessageIndex]_vars

\* The memory of a second job has been adopted: the index has moved twice.
C6_Witness ==
  \E s \in Sessions :
    /\ SessionMemoryOf(s).lastObservedAt >= 2
    /\ SessionMemoryOf(s).lastObservedMessageIndex >= 1

(***************************************************************************)
(* C7: no session is in observerInFlight while a cached result is held     *)
(* for it.                                                                 *)
(***************************************************************************)
C7_InFlightXorCompleted ==
  \A s \in Sessions :
    ~(s \in observerInFlight /\ completedObservation[s] # None)

\* A hook invocation with tokens above the prefetch threshold has just
\* found a cached result, left it and launched nothing.
C7_Witness ==
  \E s \in Sessions :
    /\ completedObservation[s] # None
    /\ lastTurn[s] = TurnLog("passed", FALSE, FALSE)
    /\ UnobservedTokens(s) >= PrefetchThreshold
    /\ s \notin observerInFlight

(***************************************************************************)
(* C8: the step in which a job ends as failed leaves no cached result for  *)
(* the session, takes the session out of observerInFlight and leaves the   *)
(* session's memory and sequence as they are.                              *)
(***************************************************************************)
C8_FailureLeavesNothing ==
  [][\A j \in 1..Len(jobs) :
       (jobs[j].pc \in {"observer", "reflector"} /\ jobs'[j].pc = "failed")
       => LET s == jobs[j].sessionID
          IN /\ completedObservation'[s] = None
             /\ s \notin observerInFlight'
             /\ SessionMemoryOf(s)' = SessionMemoryOf(s)
             /\ messages'[s] = messages[s]
    ]_vars

\* After a job failed, a later hook invocation launched a fresh job for the
\* same session.
C8_Witness ==
  \E j \in 1..(Len(jobs) - 1) :
    /\ jobs[j].pc = "failed"
    /\ jobs[j + 1].sessionID = jobs[j].sessionID
    /\ jobs[j + 1].pc = "observer"

(***************************************************************************)
(* C9: a hook invocation in which writeMemory fails raises no error and    *)
(* leaves the sequence and the session's memory as they are.               *)
(***************************************************************************)
C9_FaultLeavesNothing ==
  [][\A s \in Sessions :
       Hook(s, TRUE) =>
         /\ lastTurn'[s].outcome # "error"
         /\ messages'[s] = messages[s]
         /\ SessionMemoryOf(s)' = SessionMemoryOf(s)
    ]_vars

\* The invocation has just rejected: the cached result is gone, the cache
\* holds the new memory, the memory file and the sequence do not show it.
C9_Witness ==
  \E s \in Sessions :
    /\ lastTurn[s].outcome = "error"
    /\ completedObservation[s] = None
    /\ cache[s] # NoMemory
    /\ cache[s] # readMemory(disk[s])
    /\ Len(messages[s]) > cache[s].lastObservedMessageIndex
    /\ \A i \in 1..Len(messages[s]) : messages[s][i].info.id # HintId

(***************************************************************************)
(* C10: the continuation message of an apply, when messages lie beyond the *)
(* range, has no suggested response and gives the task under the "may have *)
(* changed" label; when none does, it gives the task and the suggested     *)
(* response under their plain labels; each is given only if the adopted    *)
(* memory has it.                                                          *)
(***************************************************************************)
C10_ContinuationHints ==
  [][\A s \in Sessions :
       ApplyTurn(s) =>
         LET adopted == completedObservation[s].memory
             task == adopted.currentTask
             sugg == adopted.suggestedResponse
             start == completedObservation[s].firstUnobservedIdx
             text == messages'[s][start + 1].parts[1].text
         IN IF Len(messages[s]) > RangeEnd(s)
            THEN /\ ~Contains(text, SuggestedLabel)
                 /\ ~Contains(text, CurrentTaskLabel)
                 /\ IF task # Undefined
                    THEN Contains(text, PreviousTaskLabel \o task)
                    ELSE ~Contains(text, PreviousTaskLabel)
            ELSE /\ ~Contains(text, PreviousTaskLabel)
                 /\ IF task # Undefined
                    THEN Contains(text, CurrentTaskLabel \o task)
                    ELSE ~Contains(text, CurrentTaskLabel)
                 /\ IF sugg # Undefined
                    THEN Contains(text, SuggestedLabel \o sugg)
                    ELSE ~Contains(text, SuggestedLabel)
    ]_vars

\* An apply with a message beyond the range: the task is given as a previous
\* one, although the adopted memory has a suggested response too.
C10_Witness ==
  \E s \in Sessions :
    /\ lastTurn[s].outcome = "applied"
    /\ Truthy(SessionMemoryOf(s).suggestedResponse)
    /\ \E i \in 1..(Len(messages[s]) - 1) :
         /\ messages[s][i].info.id = HintId
         /\ messages[s][i].parts[1].text =
              "<r>" \o CONTINUATION_HINT \o RecentNotice \o PreviousTaskLabel
                \o SessionMemoryOf(s).currentTask \o "</r>"
         /\ messages[s][i + 1].info.id # HintId

(***************************************************************************)
(* C11: a hook invocation that finds the unobserved tokens below the       *)
(* observer threshold leaves the sequence and the session's memory as they *)
(* are and keeps a cached result as it is.                                 *)
(***************************************************************************)
C11_BelowThresholdFrame ==
  [][\A s \in Sessions :
       (Turn(s) /\ UnobservedTokens(s) < ObserverThreshold) =>
         /\ messages'[s] = messages[s]
         /\ SessionMemoryOf(s)' = SessionMemoryOf(s)
         /\ completedObservation'[s] = completedObservation[s]
    ]_vars

\* An invocation between the two thresholds has just left a cached result
\* and the messages of its range in place.
C11_Witness ==
  \E s \in Sessions :
    /\ lastTurn[s].outcome = "passed"
    /\ completedObservation[s] # None
    /\ UnobservedTokens(s) >= PrefetchThreshold
    /\ UnobservedTokens(s) < ObserverThreshold
    /\ Len(messages[s]) = RangeEnd(s)

(***************************************************************************)
(* A run in which the hook keeps being invoked, writeMemory succeeds,      *)
(* every call of a capability returns a structured result that is not      *)
(* degenerate, and the host only appends to the sequence.                  *)
(***************************************************************************)
\* What the extraction capability answers in these runs: the two results of
\* ObserverReplies, and a result with two observations, which reaches the
\* reflector threshold at once.
FairObserverReplies ==
  { r \in ObserverReplies : r.kind = "result" /\ ~r.degenerate }
  \cup { Reply("result", <<Group("d1", <<Entry("high", "t", "a", <<>>), Entry("medium", "t", "b", <<>>)>>)>>, "T", "S", FALSE) }

FairReflectorReplies(observations) ==
  { r \in ReflectorReplies(observations) :
      r.kind = "result" /\ ~r.degenerate /\ Len(r.observations) > 0 }

FairTurn == \E s \in Driven : Hook(s, FALSE)

FairObserverReply ==
  \E j \in 1..MaxJobs, reply \in FairObserverReplies : ObserverReply(j, reply)

FairReflectorReply ==
  \E j \in 1..MaxJobs :
    \E reply \in FairReflectorReplies(IF j <= Len(jobs) THEN jobs[j].newMemory.observations ELSE <<>>) : ReflectorReply(j, reply)

FairNext ==
  \/ \E s \in Driven, parts \in MsgKinds : HostAppend(s, parts)
  \/ \E s \in Driven : SystemTransform(s)
  \/ FairTurn
  \/ FairObserverReply
  \/ FairReflectorReply

FairSpec ==
  /\ Init
  /\ [][FairNext]_vars
  /\ WF_vars(FairTurn)
  /\ WF_vars(FairObserverReply)
  /\ WF_vars(FairReflectorReply)

(***************************************************************************)
(* C12: in such a run, whenever a session's unobserved tokens have reached *)
(* the observer threshold, a cached result is eventually applied for the   *)
(* session.                                                                *)
(***************************************************************************)
C12_EventuallyApplied ==
  \A s \in Driven :
    (UnobservedTokens(s) >= ObserverThreshold)
      ~> (lastTurn[s].outcome = "applied")

\* The unobserved tokens are at the observer threshold, nothing is cached,
\* no job is active, and the sequence starts with a continuation message
\* that carries no session id: every invocation returns at its first test.
C12_Witness ==
  \E s \in Driven :
    /\ UnobservedTokens(s) >= ObserverThreshold
    /\ completedObservation[s] = None
    /\ ActiveJobs(s) = {}
    /\ messages[s][1].info.id = HintId
    /\ ~Recognised(s)
    /\ lastTurn[s].outcome = "skipped"

RECURSIVE EntryCount(_)
EntryCount(groups) ==
  IF groups = <<>> THEN 0
  ELSE Len(Head(groups).entries) + EntryCount(Tail(groups))

C14_ReflectorKeepsEntries ==
  [][\A j \in 1..Len(jobs) :
       ( /\ jobs[j].pc = "reflector"
         /\ jobs'[j].pc = "succeeded"
         /\ EntryCount(jobs[j].newMemory.observations) >= 1 )
       => EntryCount(completedObservation'[jobs[j].sessionID]
                       .memory.observations) >= 1
    ]_vars

\* runReflector has returned a condensed log that has entries.
C14_Witness ==
  \E s \in Sessions :
    /\ completedObservation[s] # None
    /\ completedObservation[s].memory.lastReflectedAt # 0
    /\ EntryCount(completedObservation[s].memory.observations) >= 1

(***************************************************************************)
(* mergeObservationGroups on its own: the two logs of a call, and a third  *)
(* one for a second call, are drawn from the logs of at most MaxGroups     *)
(* groups.  The groups repeat a date and repeat an entry.                  *)
(***************************************************************************)
MaxGroups == 2

MergeGroups ==
  { Group("d1", <<Entry("high", "t", "a", <<>>)>>),
    Group("d1", <<Entry("medium", "t", "b", <<>>),
                  Entry("low", "t", "c", <<>>)>>),
    Group("d2", <<Entry("high", "t", "a", <<>>)>>) }

MergeLogs == UNION { [1..n -> MergeGroups] : n \in 0..MaxGroups }

MergeCall(existing, incoming, further) ==
  [fn |-> "merge", pc |-> "called", existing |-> existing,
   incoming |-> incoming, further |-> further,
   merged |-> <<>>, left |-> <<>>, right |-> <<>>]

pluginVars == <<messages, nextId, cache, disk, completedObservation,
                observerInFlight, jobs, lastTurn>>

MergeInit ==
  /\ PluginInit
  /\ call \in { MergeCall(a, b, c) : a \in MergeLogs, b \in MergeLogs,
                                     c \in MergeLogs }

\* mergeObservationGroups(existing, incoming) returns
Merge ==
  /\ call.fn = "merge" /\ call.pc = "called"
  /\ call' = [call EXCEPT
       !.pc = "merged",
       !.merged = mergeObservationGroups(call.existing, call.incoming)]
  /\ UNCHANGED pluginVars

\* the result is merged with a further log, and the same three logs are
\* merged the other way round
MergeFurther ==
  /\ call.fn = "merge" /\ call.pc = "merged"
  /\ call' = [call EXCEPT
       !.pc = "done",
       !.left = mergeObservationGroups(call.merged, call.further),
       !.right = mergeObservationGroups(call.existing,
                   mergeObservationGroups(call.incoming, call.further))]
  /\ UNCHANGED pluginVars

MergeNext == Merge \/ MergeFurther

MergeSpec == MergeInit /\ [][MergeNext]_vars

\* What the merge claims speak of: the dates of a log, the entries a log
\* has under a date, and where a date first occurs.
DatesIn(log) == { log[i].date : i \in 1..Len(log) }

RECURSIVE Flatten(_)
Flatten(groups) ==
  IF groups = <<>> THEN <<>> ELSE Head(groups).entries \o Flatten(Tail(groups))

EntriesOn(log, d) == Flatten(SelectSeq(log, LAMBDA g : g.date = d))

FirstAt(log, d) ==
  CHOOSE i \in 1..Len(log) :
    log[i].date = d /\ \A k \in 1..(i - 1) : log[k].date # d

Merged == call.fn = "merge" /\ call.pc # "called"

(***************************************************************************)
(* C15: merge is associative: merge(merge(A, B), C) and                    *)
(* merge(A, merge(B, C)) are the same sequence of groups, date by date and *)
(* entry by entry.                                                         *)
(***************************************************************************)
C15_MergeAssociative ==
  (call.fn = "merge" /\ call.pc = "done") => call.left = call.right

\* Three logs that all have entries under one date, and a second date.
C15_Witness ==
  /\ call.fn = "merge" /\ call.pc = "done"
  /\ \E d \in DatesIn(call.existing) :
       /\ EntriesOn(call.existing, d) # <<>>
       /\ EntriesOn(call.incoming, d) # <<>>
       /\ EntriesOn(call.further, d) # <<>>
  /\ Len(call.left) = 2
  /\ Len(call.incoming) = 2 /\ call.incoming[1].date = call.incoming[2].date

(***************************************************************************)
(* C16: for every date of either input the merged log has exactly one      *)
(* group, and its entries are those the existing log has under the date,   *)
(* in order, followed by those the incoming log has under it, in order.    *)
(***************************************************************************)
C16_OneGroupPerDate ==
  Merged =>
    \A d \in DatesIn(call.existing) \cup DatesIn(call.incoming) :
      LET hits == { i \in 1..Len(call.merged) : call.merged[i].date = d }
      IN /\ Cardinality(hits) = 1
         /\ \A i \in hits :
              call.merged[i].entries =
                EntriesOn(call.existing, d) \o EntriesOn(call.incoming, d)

\* A date under which the existing log has two groups and the incoming log
\* has entries too.
C16_Witness ==
  /\ Merged
  /\ Len(call.existing) = 2
  /\ call.existing[1].date = call.existing[2].date
  /\ call.existing[1].entries # call.existing[2].entries
  /\ Len(EntriesOn(call.incoming, call.existing[1].date)) = 2
  /\ Len(call.merged) = 1
  /\ Len(call.merged[1].entries) = 5

(***************************************************************************)
(* C17: the merged log has as many entries as the two inputs together;     *)
(* nothing is dropped, and equal entries are both kept.                    *)
(***************************************************************************)
C17_NoEntryDropped ==
  Merged =>
    EntryCount(call.merged)
      = EntryCount(call.existing) + EntryCount(call.incoming)

\* A log merged with itself.
C17_Witness ==
  /\ Merged
  /\ call.existing = call.incoming
  /\ EntryCount(call.existing) = 3
  /\ EntryCount(call.merged) = 6

(***************************************************************************)
(* C18: the groups of the merged log are in the order in which their dates *)
(* first occur in the existing log followed by the incoming log; a date    *)
(* that only the incoming log has comes after every date of the existing   *)
(* log.                                                                    *)
(***************************************************************************)
C18_FirstAppearanceOrder ==
  Merged =>
    LET all == call.existing \o call.incoming
        m == call.merged
    IN /\ \A i, j \in 1..Len(m) :
            i < j => FirstAt(all, m[i].date) < FirstAt(all, m[j].date)
       /\ \A i, j \in 1..Len(m) :
            ( /\ m[i].date \notin DatesIn(call.existing)
              /\ m[j].date \in DatesIn(call.existing) ) => j < i

\* The incoming log starts with a date only it has and goes on with the
\* date of the existing log.
C18_Witness ==
  /\ Merged
  /\ Len(call.existing) >= 1
  /\ Len(call.incoming) = 2
  /\ call.incoming[1].date \notin DatesIn(call.existing)
  /\ call.incoming[2].date \in DatesIn(call.existing)
  /\ Len(call.merged) = 2
  /\ call.merged[2].date = call.incoming[1].date

(***************************************************************************)
(* C19: when the extraction capability answers with an empty result (no    *)
(* observations), the job ends as failed and nothing is cached for the     *)
(* session.                                                                *)
(***************************************************************************)
C19_EmptyExtractionFails ==
  [][\A j \in 1..MaxJobs :
       ObserverReply(j, EmptyReply) =>
         /\ jobs'[j].pc = "failed"
         /\ completedObservation' = completedObservation
    ]_vars

\* A result whose extraction found nothing is cached for a session.
C19_Witness ==
  \E s \in Sessions :
    /\ completedObservation[s] # None
    /\ completedObservation[s].memory.observations = <<>>
    /\ completedObservation[s].observedCount >= 1
    /\ s \notin observerInFlight

(***************************************************************************)
(* C20: a call of the extraction capability that raises is retried; the    *)
(* job fails on a raising call only once the retries are used up, and then *)
(* nothing is cached and no memory changes.                                *)
(***************************************************************************)
C20_ErrorRetried ==
  [][\A j \in 1..MaxJobs :
       ObserverReply(j, ThrowReply) =>
         /\ jobs'[j].pc = "failed" => jobs[j].attempt = MAX_DEGENERATE_RETRIES
         /\ completedObservation' = completedObservation
         /\ cache' = cache /\ disk' = disk
    ]_vars

\* A job has failed on a raising call: nothing is cached, the session is no
\* longer in flight and its memory is the one before the job.
C20_Witness ==
  \E j \in 1..Len(jobs) :
    /\ jobs[j].pc = "failed"
    /\ completedObservation[jobs[j].sessionID] = None
    /\ jobs[j].sessionID \notin observerInFlight
    /\ SessionMemoryOf(jobs[j].sessionID).lastObservedAt = 0

(***************************************************************************)
(* C21: every message of a session's sequence at an index up to            *)
(* lastObservedMessageIndex has been observed.  Step by step: a message    *)
(* that a step leaves or puts at such an index was at such an index        *)
(* before, or lay in the range of the cached result that this step         *)
(* consumes; the continuation message, which the apply itself inserts, is  *)
(* not counted.  A message that arrived after the job's snapshot is        *)
(* neither.                                                                *)
(***************************************************************************)
ObservedIndex(s) == SessionMemoryOf(s).lastObservedMessageIndex

C21_ObservedBelowIndex ==
  [][\A s \in Sessions : \A i \in 1..Len(messages'[s]) :
       ( /\ i - 1 <= ObservedIndex(s)'
         /\ messages'[s][i].info.id # HintId )
       => \E k \in 1..Len(messages[s]) :
            /\ messages[s][k] = messages'[s][i]
            /\ \/ k - 1 <= ObservedIndex(s)
               \/ /\ Consumed(s)
                  /\ k - 1 >= completedObservation[s].firstUnobservedIdx
                  /\ k - 1 < RangeEnd(s)
    ]_vars

\* An apply has replaced a range of one message by the continuation
\* message, and the message that arrived after the snapshot lies above the
\* index.
C21_Witness ==
  \E s \in Sessions :
    /\ lastTurn[s].outcome = "applied"
    /\ ObservedIndex(s) = 0
    /\ Len(messages[s]) = 2
    /\ messages[s][1].info.id = HintId
    /\ messages[s][2].info.id # HintId

(***************************************************************************)
(* C22: an invocation of the hook never waits for the compression          *)
(* capability.  While a job of the session is running the invocation can   *)
(* be taken, and it is over in its own step: it has an outcome, it leaves  *)
(* every running job where it was, and the job it launches has not had any *)
(* answer from the capability when the invocation returns.                 *)
(***************************************************************************)
C22_TurnNeverWaits ==
  /\ [](\A s \in Driven : ActiveJobs(s) # {} => ENABLED Hook(s, FALSE))
  /\ [][\A s \in Sessions :
          Turn(s) =>
            /\ lastTurn'[s].outcome # "none"
            /\ \A j \in 1..Len(jobs) : jobs'[j] = jobs[j]
            /\ \A j \in 1..Len(jobs') :
                 j > Len(jobs) =>
                   /\ jobs'[j].pc = "observer"
                   /\ jobs'[j].attempt = 0
                   /\ jobs'[j].sessionID \in observerInFlight'
       ]_vars

\* An invocation has returned while the session's job waits for the
\* condensation capability.
C22_Witness ==
  \E s \in Sessions :
    /\ lastTurn[s].outcome = "passed"
    /\ \E j \in ActiveJobs(s) : jobs[j].pc = "reflector" /\ jobs[j].level > 0

(***************************************************************************)
(* detectDegenerateRepetition on its own.  A text is a sequence of         *)
(* character codes, Newline being the line break.  The function's numbers  *)
(* are scaled down, their order and the comparisons kept: no verdict below *)
(* DegenerateMinLength (2,000), windows of windowSize (200) characters     *)
(* every text.length / SampleDivisor (50) characters, more than MinWindows *)
(* (5) windows and more than 4 duplicates in 10 (0.4), or a line longer    *)
(* than LineLimit (50,000).                                                *)
(***************************************************************************)
DegenerateMinLength == 8
windowSize == 2
SampleDivisor == 10
MinWindows == 5
LineLimit == 24

Newline == 0

\* the lengths of text.split("\n")
LineLengths(text) ==
  LET breaks == {0} \cup { i \in 1..Len(text) : text[i] = Newline }
                    \cup { Len(text) + 1 }
  IN { e - b - 1 : <<b, e>> \in
         { p \in breaks \X breaks :
             p[1] < p[2] /\ \A m \in breaks : ~(p[1] < m /\ m < p[2]) } }

detectDegenerateRepetition(text) ==
  IF Len(text) = 0 \/ Len(text) < DegenerateMinLength THEN FALSE
  ELSE
    LET step == IF Len(text) \div SampleDivisor > 1
                THEN Len(text) \div SampleDivisor ELSE 1
        \* the values of i in: for (i = 0; i + windowSize <= length; i += step)
        starts == { i \in 0..Len(text) :
                      i % step = 0 /\ i + windowSize <= Len(text) }
        w(i) == SubSeq(text, i + 1, i + windowSize)
        total == Cardinality(starts)
        \* count > 1: the window was seen at an earlier start
        duplicates == Cardinality({ i \in starts :
                        \E k \in starts : k < i /\ w(k) = w(i) })
    IN IF total > MinWindows /\ 10 * duplicates > 4 * total THEN TRUE
       ELSE \E n \in LineLengths(text) : n > LineLimit

\* The texts: one or two lines, each of one repeated character or of
\* characters that occur nowhere else in the text.
MaxLineLen == 26

DetectLine(pattern, n, base) ==
  [i \in 1..n |-> IF pattern = "same" THEN 1 ELSE base + i]

DetectLines(base) ==
  { DetectLine(pattern, n, base) :
      pattern \in {"same", "distinct"}, n \in 0..MaxLineLen }

DetectTexts ==
  DetectLines(100)
    \cup { a \o <<Newline>> \o b : a \in DetectLines(100), b \in DetectLines(200) }

DetectInit ==
  /\ PluginInit
  /\ call \in { [fn |-> "detect", pc |-> "called", text |-> t,
                 result |-> FALSE] : t \in DetectTexts }

\* detectDegenerateRepetition(text) returns
Detect ==
  /\ call.fn = "detect" /\ call.pc = "called"
  /\ call' = [call EXCEPT !.pc = "done",
                          !.result = detectDegenerateRepetition(call.text)]
  /\ UNCHANGED pluginVars

DetectNext == Detect

DetectSpec == DetectInit /\ [][DetectNext]_vars

(***************************************************************************)
(* C23: the detector answers false for every text shorter than the minimum *)
(* length, and true for every text that has a line of at least the line    *)
(* limit, whatever the line holds.                                         *)
(***************************************************************************)
C23_DetectorBounds ==
  (call.fn = "detect" /\ call.pc = "done") =>
    /\ Len(call.text) < DegenerateMinLength => call.result = FALSE
    /\ (\E n \in LineLengths(call.text) : n >= LineLimit) => call.result = TRUE

\* A line longer than the limit whose characters never repeat is flagged.
C23_Witness ==
  /\ call.fn = "detect" /\ call.pc = "done"
  /\ call.result = TRUE
  /\ LineLengths(call.text) = {LineLimit + 1}
  /\ \A i, k \in 1..Len(call.text) : i # k => call.text[i] # call.text[k]

(***************************************************************************)
(* readMemory on its own: the file is absent, was written by the plugin,   *)
(* or holds observations in the legacy text format, made of at most        *)
(* MaxLegacyLines lines.                                                   *)
(***************************************************************************)
MaxLegacyLines == 3

LegacyLines ==
  { "Date: d1", "* #R (t) a", "* #Y (t) b", "  * -> c", "note", "" }

LegacyTexts ==
  { JoinLines(lines, "\n") :
      lines \in UNION { [1..n -> LegacyLines] : n \in 1..MaxLegacyLines } }

LegacyFile(text) ==
  [typeofObservations |-> "string",
   observations |-> text,
   currentTask |-> Undefined,
   suggestedResponse |-> Undefined,
   lastObservedMessageIndex |-> 5,
   lastObservedTokens |-> 15,
   lastObservedAt |-> 1,
   lastReflectedAt |-> 0]

StructuredFile ==
  [DEFAULT_MEMORY EXCEPT
     !.observations = <<Group("d1", <<Entry("high", "t", "a", <<>>)>>)>>,
     !.lastObservedMessageIndex = 5,
     !.lastObservedAt = 1]

ReadInit ==
  /\ PluginInit
  /\ call \in { [fn |-> "readMemory", pc |-> "called", file |-> f,
                 loaded |-> DEFAULT_MEMORY] :
                f \in {NoFile, StructuredFile}
                        \cup { LegacyFile(t) : t \in LegacyTexts } }

\* readMemory(storageDir, sessionID) returns
Read ==
  /\ call.fn = "readMemory" /\ call.pc = "called"
  /\ call' = [call EXCEPT !.pc = "done", !.loaded = readMemory(call.file)]
  /\ UNCHANGED pluginVars

ReadNext == Read

ReadSpec == ReadInit /\ [][ReadNext]_vars

\* The lines of a text, and the texts a loaded log holds.
RECURSIVE SplitLines(_)
SplitLines(text) ==
  IF \E i \in 1..Len(text) : SubSeq(text, i, i) = "\n"
  THEN LET i == CHOOSE k \in 1..Len(text) :
                  /\ SubSeq(text, k, k) = "\n"
                  /\ \A m \in 1..(k - 1) : SubSeq(text, m, m) # "\n"
       IN <<SubSeq(text, 1, i - 1)>> \o SplitLines(SubSeq(text, i + 1, Len(text)))
  ELSE <<text>>

LogTexts(groups) ==
  UNION { { groups[g].date }
            \cup { groups[g].entries[e].text : e \in 1..Len(groups[g].entries) }
            \cup UNION { { groups[g].entries[e].children[c].text :
                             c \in 1..Len(groups[g].entries[e].children) } :
                         e \in 1..Len(groups[g].entries) } :
          g \in 1..Len(groups) }

(***************************************************************************)
(* C24: loading a file whose observations are legacy text loses nothing:   *)
(* every line of the text that is not empty has its content in the loaded  *)
(* log, as a date, an entry or a child.                                    *)
(***************************************************************************)
C24_LegacyLoadKeepsLines ==
  (call.fn = "readMemory" /\ call.pc = "done" /\ IsLegacyFile(call.file)) =>
    \A i \in 1..Len(SplitLines(call.file.observations)) :
      LET line == SplitLines(call.file.observations)[i]
      IN line # "" =>
           \E x \in LogTexts(call.loaded.observations) :
             x # "" /\ Contains(line, x)

\* A legacy file whose text has only empty lines has been loaded: the log
\* is empty and the other fields of the file are kept.
C24_Witness ==
  /\ call.fn = "readMemory" /\ call.pc = "done"
  /\ IsLegacyFile(call.file)
  /\ SplitLines(call.file.observations) = <<"", "", "">>
  /\ call.loaded.observations = <<>>
  /\ call.loaded.lastObservedMessageIndex = 5
  /\ ~IsLegacyFile(call.loaded)

(***************************************************************************)
(* C25: an apply never replaces a log that has entries by a log that has   *)
(* none, whatever the extraction and condensation capabilities answered.   *)
(***************************************************************************)
C25_ApplyKeepsEntries ==
  [][\A s \in Sessions :
       (Applies(s) /\ EntryCount(SessionMemoryOf(s).observations) >= 1)
       => EntryCount(SessionMemoryOf(s)'.observations) >= 1
    ]_vars

\* An apply has adopted a condensed log over a log that had entries, and the
\* condensed log has entries.
C25_Witness ==
  \E s \in Sessions :
    /\ lastTurn[s].outcome = "applied"
    /\ SessionMemoryOf(s).lastReflectedAt # 0
    /\ SessionMemoryOf(s).lastObservedAt = Now(2)
    /\ EntryCount(SessionMemoryOf(s).observations) >= 1

(***************************************************************************)
(* Two sessions side by side: the host appends to either sequence and      *)
(* compacts either, the hook is invoked on either, and the extraction      *)
(* capability answers with a result or raises.                             *)
(***************************************************************************)
PairObserverReplies ==
  { ThrowReply,
    Reply("result", <<Group("d1", <<Entry("high", "t", "a", <<>>)>>)>>,
          "T", "S", FALSE) }

\* Native compaction drops the oldest message of a session that holds a
\* cached result, which is when it can make the result stale.
CompactionUnderResult(s) ==
  completedObservation[s] # None /\ NativeCompaction(s, 1)

PairNext ==
  \/ \E s \in Sessions, parts \in MsgKinds : HostAppend(s, parts)
  \/ \E s \in Sessions : CompactionUnderResult(s)
  \/ \E s \in Sessions : Hook(s, FALSE)
  \/ \E j \in 1..MaxJobs, reply \in PairObserverReplies : ObserverReply(j, reply)

PairSpec == Init /\ [][PairNext]_vars

(***************************************************************************)
(* C26: state is partitioned by session.  A step of session A (an          *)
(* invocation of the hook on A's sequence, with the launch, apply or stale *)
(* discard it may make, or a step of one of A's jobs) leaves every other   *)
(* session's membership of observerInFlight, cached result, memory and     *)
(* sequence as they were.                                                  *)
(***************************************************************************)
StepOf(a) ==
  \/ Turn(a)
  \/ \E j \in 1..Len(jobs) : jobs[j].sessionID = a /\ jobs'[j] # jobs[j]

C26_SessionsPartitioned ==
  [][\A a \in Sessions : StepOf(a) =>
       \A b \in Sessions \ {a} :
         /\ (b \in observerInFlight') = (b \in observerInFlight)
         /\ completedObservation'[b] = completedObservation[b]
         /\ SessionMemoryOf(b)' = SessionMemoryOf(b)
         /\ cache'[b] = cache[b] /\ disk'[b] = disk[b]
         /\ messages'[b] = messages[b]
         /\ \A j \in 1..Len(jobs) : jobs[j].sessionID = b => jobs'[j] = jobs[j]
    ]_vars

\* One session's cached result has just been applied while the other
\* session holds a cached result of its own.
C26_Witness ==
  \E a \in Sessions : \E b \in Sessions \ {a} :
    /\ lastTurn[a].outcome = "applied"
    /\ completedObservation[b] # None
    /\ Len(messages[b]) >= 1
    /\ SessionMemoryOf(a) # SessionMemoryOf(b)

(***************************************************************************)
(* The escalation of the condensation                                      *)
(***************************************************************************)
\* The calls of the condensation capability a job has made or has pending
\* in its run of runReflector.
ReflectorCalls(job) == job.level + 1

\* C27: one run of the escalation controller calls the condensation
\* capability at most four times; a reply that is neither degenerate nor
\* without entries and is estimated strictly smaller than the input is
\* returned at once, with no further call; a non-degenerate reply that is
\* not smaller, on any of the first three attempts, is followed by one
\* more attempt.
C27_EscalationBounded ==
  [][\A j \in 1..Len(jobs) : jobs[j].pc = "reflector" =>
       LET job == jobs[j]
           observations == job.newMemory.observations
       IN /\ ReflectorCalls(job) <= MAX_COMPRESSION_RETRIES + 1
          /\ jobs'[j].pc = "reflector" =>
                ReflectorCalls(jobs'[j]) \in
                  {ReflectorCalls(job), ReflectorCalls(job) + 1}
          /\ \A reply \in ReflectorReplies(observations) :
                ReflectorReply(j, reply) /\ reply.kind = "result" =>
                  /\ ( /\ ~reply.degenerate
                       /\ EntryCount(reply.observations) >= 1
                       /\ ReflectorShrinks(reply, observations) )
                     => /\ jobs'[j].pc = "succeeded"
                        /\ completedObservation'[job.sessionID]
                             .memory.observations = reply.observations
                  /\ ( /\ ~reply.degenerate
                       /\ ~ReflectorShrinks(reply, observations)
                       /\ ReflectorCalls(job) <= MAX_COMPRESSION_RETRIES )
                     => /\ jobs'[j].pc = "reflector"
                        /\ ReflectorCalls(jobs'[j]) = ReflectorCalls(job) + 1
                        /\ completedObservation' = completedObservation]_vars

\* A job is at its fourth call of the condensation capability: three
\* replies have each been followed by one more attempt.
C27_Witness ==
  \E j \in 1..Len(jobs) :
    /\ jobs[j].pc = "reflector"
    /\ ReflectorCalls(jobs[j]) = MAX_COMPRESSION_RETRIES + 1

\* C28: the attempt of the escalation controller at level k, for k from 0
\* to 3, calls the condensation capability with a prompt that carries the
\* guidance of compression level k.
C28_GuidanceFollowsLevel ==
  \A j \in 1..Len(jobs) :
    jobs[j].pc = "reflector" =>
      jobs[j].guidance = buildReflectorPrompt(jobs[j].level)

\* A job waits for the answer to a call of the condensation capability
\* made after a first answer was turned down.
C28_Witness ==
  \E j \in 1..Len(jobs) :
    jobs[j].pc = "reflector" /\ jobs[j].level >= 1

\* The answer to the last call of a run of runReflector that is no
\* smaller log: it is null, empty of groups, degenerate or not smaller
\* than the input.
BudgetExhausted(job, reply) ==
  /\ job.level = MAX_COMPRESSION_RETRIES
  /\ reply.kind # "throw"
  /\ \/ ReflectorRejects(reply)
     \/ ~ReflectorShrinks(reply, job.newMemory.observations)

\* C29: when the four attempts of the escalation controller have yielded
\* no smaller result, a last candidate that is null, degenerate or without
\* any entry makes the controller return the input log with the degenerate
\* flag, so that the job keeps the log it had; any other last candidate is
\* returned without the flag and becomes the job's log.
C29_ExhaustedBudget ==
  [][\A j \in 1..Len(jobs) : jobs[j].pc = "reflector" =>
       LET job == jobs[j]
           observations == job.newMemory.observations
       IN \A reply \in ReflectorReplies(observations) :
            ReflectorReply(j, reply) /\ BudgetExhausted(job, reply) =>
              LET returned == ReflectorResult(reply, observations)
                  cached == completedObservation'[job.sessionID].memory
              IN /\ jobs'[j].pc = "succeeded"
                 /\ IF \/ reply.kind = "null"
                       \/ reply.degenerate
                       \/ EntryCount(reply.observations) = 0
                    THEN /\ returned.degenerate
                         /\ returned.observations = observations
                         /\ cached = job.newMemory
                    ELSE /\ ~returned.degenerate
                         /\ returned.observations = reply.observations
                         /\ cached.observations = reply.observations]_vars

\* The fourth attempt of a run has been answered with a log that has an
\* entry and is not smaller than the input, and that log is the cached
\* result's.
C29_Witness ==
  \E j \in 1..Len(jobs) :
    /\ jobs[j].pc = "succeeded"
    /\ completedObservation[jobs[j].sessionID] # None
    /\ LET cached == completedObservation[jobs[j].sessionID].memory
       IN /\ cached.lastReflectedAt = Now(j)
          /\ Len(cached.observations) >= 2
          /\ EntryCount(cached.observations) >= 2

(***************************************************************************)
(* The retries of the extraction                                           *)
(***************************************************************************)
\* The calls of the extraction capability a job has made or has pending in
\* its run of runObserver.
ObserverCalls(job) == job.attempt + 1

C31_DegenerateCondensationKept ==
  [][\A j \in 1..Len(jobs) :
       LET job == jobs[j]
       IN /\ \A reply \in ObserverReplies :
               ( /\ ObserverReply(j, reply)
                 /\ jobs'[j].pc = "reflector" )
               => /\ jobs'[j].newMemory.observations =
                       mergeObservationGroups(job.currentMemory.observations,
                                              reply.observations)
                  /\ jobs'[j].newMemory.lastReflectedAt =
                       job.currentMemory.lastReflectedAt
                  /\ jobs'[j].currentMemory = job.currentMemory
          /\ job.pc = "reflector" =>
               \A reply \in ReflectorReplies(job.newMemory.observations) :
                 ( /\ ReflectorReply(j, reply)
                   /\ job.level = MAX_COMPRESSION_RETRIES
                   /\ \/ reply.kind = "null"
                      \/ reply.kind = "result" /\ reply.degenerate
                      \/ reply.kind = "result" /\ Len(reply.observations) = 0 )
                 => /\ jobs'[j].pc = "succeeded"
                    /\ completedObservation'[job.sessionID] # None
                    /\ LET stored == completedObservation'[job.sessionID].memory
                       IN /\ stored.observations = job.newMemory.observations
                          /\ stored.lastReflectedAt =
                               job.currentMemory.lastReflectedAt
                          /\ stored = job.newMemory]_vars

\* A job has succeeded and its stored result holds a log that reaches the
\* reflector threshold and was not condensed by this job.
C31_Witness ==
  \E j \in 1..Len(jobs) :
    /\ jobs[j].pc = "succeeded"
    /\ completedObservation[jobs[j].sessionID] # None
    /\ LET stored == completedObservation[jobs[j].sessionID].memory
       IN /\ stored.lastObservedAt = Now(j)
          /\ stored.lastReflectedAt # Now(j)
          /\ estimateObservationTokens(stored.observations)
               >= ReflectorThreshold

\* No two groups of the log have the same date.
DistinctDates(log) ==
  \A i \in 1..Len(log) : \A k \in 1..Len(log) :
    log[i].date = log[k].date => i = k

\* C32: in every reachable state the observation log of a session, and
\* the log of any stored result, has at most one group per date, also
\* after a condensation result has been adopted.
C32_OneGroupPerDateKept ==
  \A s \in Sessions :
    /\ DistinctDates(SessionMemoryOf(s).observations)
    /\ completedObservation[s] # None =>
         DistinctDates(completedObservation[s].memory.observations)

\* A stored result holds a log with at least one group that a condensation
\* of the same job produced.
C32_Witness ==
  \E j \in 1..Len(jobs) :
    /\ jobs[j].pc = "succeeded"
    /\ completedObservation[jobs[j].sessionID] # None
    /\ LET stored == completedObservation[jobs[j].sessionID].memory
       IN /\ stored.lastReflectedAt = Now(j)
          /\ Len(stored.observations) >= 1

(***************************************************************************)
(* What a job captures                                                     *)
(***************************************************************************)
\* The inputs of a job: the slice it observes, the memory it merges into
\* and the index the slice starts at.
Captured(job) ==
  [unobserved |-> job.unobserved, currentMemory |-> job.currentMemory,
   firstUnobservedIdx |-> job.firstUnobservedIdx]

\* C33: the inputs of a background job are those of the turn that launches
\* it: the slice of the sequence after the observed index, the session's
\* memory and the index the slice starts at; no later step changes them
\* while the job runs, and the range of the result it stores is the start
\* and the length of that slice.
C33_InputsFixedAtLaunch ==
  [][/\ \A s \in Sessions : LaunchedFor(s) =>
          LET memory == SessionMemoryOf(s)
              firstUnobservedIdx == memory.lastObservedMessageIndex + 1
          IN Captured(jobs'[Len(jobs')]) =
               [unobserved |-> Slice(messages[s], firstUnobservedIdx),
                currentMemory |-> memory,
                firstUnobservedIdx |-> firstUnobservedIdx]
     /\ \A j \in 1..Len(jobs) : jobs[j].pc \in {"observer", "reflector"} =>
          /\ jobs'[j].pc \in {"observer", "reflector"} =>
               Captured(jobs'[j]) = Captured(jobs[j])
          /\ jobs'[j].pc = "succeeded" =>
               LET stored == completedObservation'[jobs[j].sessionID]
               IN /\ stored # None
                  /\ stored.firstUnobservedIdx = jobs[j].firstUnobservedIdx
                  /\ stored.observedCount = Len(jobs[j].unobserved)]_vars

\* A job is running whose slice is no longer what the sequence holds from
\* the slice's start on: the sequence has changed since the launch.
C33_Witness ==
  \E j \in 1..Len(jobs) :
    /\ jobs[j].pc \in {"observer", "reflector"}
    /\ Len(jobs[j].unobserved) >= 1
    /\ Slice(messages[jobs[j].sessionID], jobs[j].firstUnobservedIdx)
         # jobs[j].unobserved

\* This step is a step of the job: an answer of a capability reaches it.
JobStep(j) == jobs[j].pc \in {"observer", "reflector"} /\ jobs'[j] # jobs[j]

\* C34: a background job never changes the session's memory, neither the
\* cache nor the memory file, nor the sequence; a job that finishes writes
\* only its session's stored result and takes its session out of
\* observerInFlight; the memory of a session changes only in a turn that
\* consumes the stored result.
C34_JobLeavesMemory ==
  [][/\ \A j \in 1..Len(jobs) : JobStep(j) =>
          LET sessionID == jobs[j].sessionID
          IN /\ cache' = cache /\ disk' = disk /\ messages' = messages
             /\ \A s \in Sessions \ {sessionID} :
                  /\ completedObservation'[s] = completedObservation[s]
                  /\ (s \in observerInFlight') = (s \in observerInFlight)
             /\ jobs'[j].pc \in {"observer", "reflector"} =>
                  /\ completedObservation' = completedObservation
                  /\ observerInFlight' = observerInFlight
             /\ jobs'[j].pc \in {"succeeded", "failed"} =>
                  sessionID \notin observerInFlight'
             /\ jobs'[j].pc = "failed" =>
                  completedObservation' = completedObservation
     /\ \A s \in Sessions :
          (SessionMemoryOf(s)' # SessionMemoryOf(s) \/ disk'[s] # disk[s]) =>
            Turn(s) /\ Consumed(s)]_vars

\* A job has stored a result whose memory differs from the session's
\* memory, which is still what it was when the job was launched.
C34_Witness ==
  \E j \in 1..Len(jobs) :
    LET s == jobs[j].sessionID
    IN /\ jobs[j].pc = "succeeded"
       /\ completedObservation[s] # None
       /\ completedObservation[s].memory.lastObservedAt = Now(j)
       /\ completedObservation[s].memory # SessionMemoryOf(s)
       /\ SessionMemoryOf(s).lastObservedAt # Now(j)

(***************************************************************************)
(* Runs in which every call of a capability ends: the answer to a running  *)
(* job's pending call, whatever it is, eventually arrives.  The host       *)
(* appends messages, and its compaction drops the oldest message while a   *)
(* job is running; writeMemory succeeds.                                   *)
(***************************************************************************)
\* The answers to an extraction call: those of ObserverReplies and the
\* result with two observations, which reaches the reflector threshold.
ReturnedObserverReplies == ObserverReplies \cup FairObserverReplies

ObserverReturns(j) ==
  \E reply \in ReturnedObserverReplies : ObserverReply(j, reply)

ReflectorReturns(j) ==
  \E reply \in ReflectorReplies(IF j <= Len(jobs) THEN jobs[j].newMemory.observations ELSE <<>>) : ReflectorReply(j, reply)

CompactionUnderJob(s) == ActiveJobs(s) # {} /\ NativeCompaction(s, 1)

ReturnNext ==
  \/ \E s \in Driven, parts \in MsgKinds : HostAppend(s, parts)
  \/ \E s \in Driven : CompactionUnderJob(s)
  \/ \E s \in Driven : Hook(s, FALSE)
  \/ \E j \in 1..MaxJobs : ObserverReturns(j)
  \/ \E j \in 1..MaxJobs : ReflectorReturns(j)

ReturnSpec ==
  /\ Init
  /\ [][ReturnNext]_vars
  /\ \A j \in 1..MaxJobs :
       WF_vars(ObserverReturns(j)) /\ WF_vars(ReflectorReturns(j))

\* C35: in such a run every launched job eventually finishes, succeeded or
\* failed, and its session eventually leaves observerInFlight; no step but
\* an answer to the job's own call ends it, also when the sequence has
\* become too short for the range of its result.
C35_JobsFinish ==
  /\ \A j \in 1..MaxJobs :
       (j <= Len(jobs) /\ jobs[j].pc \in {"observer", "reflector"})
         ~> (j <= Len(jobs) /\ jobs[j].pc \in {"succeeded", "failed"})
  /\ \A s \in Driven :
       (s \in observerInFlight) ~> (s \notin observerInFlight)
  /\ [][\A j \in 1..Len(jobs) :
         ( /\ jobs[j].pc \in {"observer", "reflector"}
           /\ jobs'[j].pc \notin {"observer", "reflector"} )
         => ObserverReturns(j) \/ ReflectorReturns(j)]_vars

\* A job is running whose range no longer fits the sequence: its result
\* would be discarded as stale.
C35_Witness ==
  \E j \in 1..Len(jobs) :
    /\ jobs[j].pc \in {"observer", "reflector"}
    /\ jobs[j].sessionID \in observerInFlight
    /\ jobs[j].firstUnobservedIdx + Len(jobs[j].unobserved)
         > Len(messages[jobs[j].sessionID])

(***************************************************************************)
(* Ranges and the memory they start from                                   *)
(***************************************************************************)
\* C36: whenever a result is stored for a session, its range starts right
\* after the session's current lastObservedMessageIndex and the index its
\* memory carries is the last of its range; a running job holds the
\* session's current memory and starts at the same place: the memory does
\* not change between a launch and the apply or discard of the result, so
\* the range of the next result starts where the applied one ended.
C36_RangeFollowsMemory ==
  \A s \in Sessions :
    LET memory == SessionMemoryOf(s)
    IN /\ completedObservation[s] # None =>
            LET stored == completedObservation[s]
            IN /\ stored.firstUnobservedIdx =
                    memory.lastObservedMessageIndex + 1
               /\ stored.memory.lastObservedMessageIndex =
                    stored.firstUnobservedIdx + stored.observedCount - 1
               /\ stored.observedCount >= 1
       /\ \A j \in ActiveJobs(s) :
            /\ jobs[j].currentMemory = memory
            /\ jobs[j].firstUnobservedIdx = memory.lastObservedMessageIndex + 1
            /\ completedObservation[s] = None

\* A result is stored whose range starts where an earlier, applied range
\* ended.
C36_Witness ==
  \E s \in Sessions :
    /\ completedObservation[s] # None
    /\ completedObservation[s].firstUnobservedIdx >= 1
    /\ SessionMemoryOf(s).lastObservedAt >= 1

(***************************************************************************)
(* Traced runs: the records of finished jobs keep the captured slices.  The *)
(* host appends messages and its compaction drops the oldest message while *)
(* a job runs or a result is stored; writeMemory succeeds.                  *)
(***************************************************************************)
TraceInit == PluginInit /\ call = TraceCall

TraceNext ==
  \/ \E s \in Driven, parts \in MsgKinds : HostAppend(s, parts)
  \/ \E s \in Driven : CompactionUnderJob(s)
  \/ \E s \in Driven : CompactionUnderResult(s)
  \/ \E s \in Driven : Hook(s, FALSE)
  \/ \E j \in 1..MaxJobs : ObserverReturns(j)
  \/ \E j \in 1..MaxJobs : ReflectorReturns(j)

TraceSpec == TraceInit /\ [][TraceNext]_vars

\* The job whose result is stored for the session: the succeeded job that
\* stamped the stored memory.
ProducerOf(s) ==
  CHOOSE j \in 1..Len(jobs) :
    /\ jobs[j].sessionID = s
    /\ jobs[j].pc = "succeeded"
    /\ completedObservation[s].memory.lastObservedAt = Now(j)

Range(seq) == { seq[i] : i \in 1..Len(seq) }

\* C37: every message that an apply removes from the sequence is one of
\* the messages that the job had captured at its launch, also when the
\* sequence was shortened by the host and grew again in between.
C37_RemovesOnlyCaptured ==
  [][\A s \in Sessions :
       (Applies(s) /\ lastTurn'[s].outcome = "applied") =>
         \A i \in RemovedBy(s) :
           messages[s][i] \in Range(jobs[ProducerOf(s)].unobserved)]_vars

\* An apply has just replaced messages by the continuation message, in a
\* sequence that holds a message younger than all that the job captured.
C37_Witness ==
  \E s \in Sessions :
    /\ lastTurn[s].outcome = "applied"
    /\ \E j \in 1..Len(jobs) :
         /\ jobs[j].pc = "succeeded"
         /\ SessionMemoryOf(s).lastObservedAt = Now(j)
         /\ Len(jobs[j].unobserved) >= 1
         /\ \E k \in 1..Len(messages[s]) :
              \A m \in Range(jobs[j].unobserved) :
                messages[s][k].info.id > m.info.id

(***************************************************************************)
(* The sequence after an apply                                             *)
(***************************************************************************)
\* C38: after an apply the first message of the sequence still carries the
\* session id, so that the next invocation on the sequence gets past its
\* first test; also when the removed range starts at index 0 and the
\* continuation message becomes the first message.
C38_SessionIdKept ==
  \A s \in Sessions : lastTurn[s].outcome = "applied" => Recognised(s)

\* An apply has just put the continuation message at the head of the
\* sequence.
C38_Witness ==
  \E s \in Sessions :
    /\ lastTurn[s].outcome = "applied"
    /\ Len(messages[s]) >= 1
    /\ messages[s][1].info.id = HintId
    /\ SessionMemoryOf(s).lastObservedMessageIndex >= 0

(***************************************************************************)
(* Invocations of the hook that interleave.  An invocation suspends at     *)
(* await getMemory and, in the apply branch, at await saveMemory; between  *)
(* two suspensions it runs alone.  call holds where each invocation is and *)
(* what it carries over a suspension, and, as history, the stamps of the   *)
(* results whose apply was begun.                                          *)
(***************************************************************************)
Invocations == {"t1", "t2"}

NoTurns ==
  [fn |-> "turns",
   pc |-> [t \in Invocations |-> "idle"],
   session |-> [t \in Invocations |-> Undefined],
   reads |-> [t \in Invocations |-> FALSE],
   completed |-> [t \in Invocations |-> None],
   recent |-> [t \in Invocations |-> FALSE],
   applied |-> <<>>]

\* From the call of the hook to the suspension in getMemory: the session id
\* is read, and getMemory has looked for the session in the cache.
TurnBegin(t, s) ==
  /\ call.fn = "turns" /\ call.pc[t] = "idle"
  /\ Recognised(s)
  /\ call' = [call EXCEPT !.pc[t] = "loading", !.session[t] = s,
                          !.reads[t] = getMemoryReads(cache[s])]
  /\ lastTurn' = NoTurn
  /\ UNCHANGED <<messages, nextId, cache, disk, completedObservation,
                 observerInFlight, jobs>>

\* From the resumption in getMemory to the suspension in saveMemory, or to
\* the return when the result is not applied.
TurnLoaded(t) ==
  /\ call.fn = "turns" /\ call.pc[t] = "loading"
  /\ LET sessionID == call.session[t]
         loaded == IF call.reads[t]
                   THEN [cache EXCEPT ![sessionID] = readMemory(disk[sessionID])]
                   ELSE cache
         memory == loaded[sessionID]
         firstUnobservedIdx == memory.lastObservedMessageIndex + 1
         unobserved == Slice(messages[sessionID], firstUnobservedIdx)
         unobservedTokens == estimateMessageTokens(unobserved)
         completed == completedObservation[sessionID]
         inApplyZone == ApplyCondition(completed, unobservedTokens)
         stale == inApplyZone
                    /\ StaleResult(completed, Len(messages[sessionID]))
         applies == inApplyZone /\ ~stale
         remaining == IF inApplyZone
                      THEN DeleteCompleted(completedObservation, sessionID)
                      ELSE completedObservation
         launches == /\ ~applies
                     /\ LaunchCondition(unobservedTokens, sessionID,
                                        observerInFlight, remaining)
     IN /\ launches => Len(jobs) < MaxJobs
        /\ completedObservation' = remaining
        /\ IF applies
           THEN /\ cache' = [loaded EXCEPT ![sessionID] = completed.memory]
                /\ call' = [call EXCEPT
                     !.pc[t] = "writing",
                     !.completed[t] = completed,
                     !.recent[t] =
                        HasRecentMessages(completed, Len(messages[sessionID])),
                     !.applied = Append(@, completed.memory.lastObservedAt)]
                /\ lastTurn' = NoTurn
                /\ UNCHANGED <<observerInFlight, jobs>>
           ELSE /\ cache' = loaded
                /\ call' = [call EXCEPT !.pc[t] = "idle"]
                /\ lastTurn' = [lastTurn EXCEPT ![sessionID] =
                     TurnLog("passed", stale, launches)]
                /\ IF launches
                   THEN /\ observerInFlight' = observerInFlight \cup {sessionID}
                        /\ jobs' = Append(jobs,
                             NewJob(sessionID, unobserved, memory,
                                    firstUnobservedIdx, unobservedTokens))
                   ELSE UNCHANGED <<observerInFlight, jobs>>
  /\ UNCHANGED <<messages, nextId, disk>>

\* From the resumption in saveMemory, the file written, to the return: the
\* two splices.
TurnWritten(t) ==
  /\ call.fn = "turns" /\ call.pc[t] = "writing"
  /\ LET sessionID == call.session[t]
         completed == call.completed[t]
     IN /\ disk' = [disk EXCEPT ![sessionID] = completed.memory]
        /\ messages' = [messages EXCEPT ![sessionID] =
             ApplySplice(@, completed, call.recent[t])]
        /\ lastTurn' = [lastTurn EXCEPT ![sessionID] =
             TurnLog("applied", FALSE, FALSE)]
  /\ call' = [call EXCEPT !.pc[t] = "idle", !.completed[t] = None]
  /\ UNCHANGED <<nextId, cache, completedObservation, observerInFlight, jobs>>

TurnsNext ==
  \/ \E s \in Driven, parts \in MsgKinds : HostAppend(s, parts)
  \/ \E t \in Invocations, s \in Driven : TurnBegin(t, s)
  \/ \E t \in Invocations : TurnLoaded(t)
  \/ \E t \in Invocations : TurnWritten(t)
  \/ \E j \in 1..MaxJobs, reply \in PairObserverReplies : ObserverReply(j, reply)

TurnsInit == PluginInit /\ call = NoTurns

TurnsSpec == TurnsInit /\ [][TurnsNext]_vars

ChildSession == "s2"

\* The pending call of a running job.
CallId(j) == <<j, jobs[j].pc, jobs[j].attempt, jobs[j].level>>

NoChildren ==
  [fn |-> "children", childSessions |-> {}, open |-> {}, ended |-> {}]

\* What the prompt of a child session comes to: an error, no structured
\* output, or a result.
ChildReplies == PairObserverReplies \cup {NullReply}

\* How a call ended and what the caller gets.
Ended(id, reply) == [id |-> id, reply |-> reply]

\* A variant of the hook's test that lets child sessions through.
ChildSessionNeverSkipped(sessionID, children) == FALSE

\* if (childSessions.has(sessionID)) return
ChildSessionSkipped(sessionID, children) == sessionID \in children

\* A variant of the clean-up that runs only when the prompt returned: the
\* delete after the await instead of in the finally block.
ChildDeletedOnReturn(children, id, reply) ==
  IF reply.kind = "throw" THEN children ELSE children \ {id}

\* finally { childSessions.delete(id) }
ChildDeleted(children, id, reply) == children \ {id}

\* session.create and childSessions.add(id)
CallBegins(j) ==
  /\ call.fn = "children"
  /\ j \in 1..Len(jobs) /\ jobs[j].pc \in {"observer", "reflector"}
  /\ CallId(j) \notin call.open
  /\ \A e \in call.ended : e.id # CallId(j)
  /\ call' = [call EXCEPT !.open = @ \cup {CallId(j)},
                          !.childSessions = @ \cup {ChildSession}]
  /\ lastTurn' = NoTurn
  /\ UNCHANGED <<messages, nextId, cache, disk, completedObservation,
                 observerInFlight, jobs>>

\* The host runs the prompt: a message arrives in the child session.
ChildPrompt(parts) ==
  /\ call.fn = "children"
  /\ call.open # {}
  /\ Len(messages[ChildSession]) = 0
  /\ HostAppend(ChildSession, parts)

\* The prompt returns or raises; finally the id leaves childSessions and
\* the child session is deleted.
CallEnds(j, reply) ==
  /\ call.fn = "children"
  /\ j \in 1..Len(jobs) /\ CallId(j) \in call.open
  /\ call' = [call EXCEPT
       !.open = @ \ {CallId(j)},
       !.ended = @ \cup {Ended(CallId(j), reply)},
       !.childSessions = ChildDeleted(@, ChildSession, reply)]
  /\ messages' = [messages EXCEPT ![ChildSession] = <<>>]
  /\ lastTurn' = NoTurn
  /\ UNCHANGED <<nextId, cache, disk, completedObservation, observerInFlight,
                 jobs>>

\* The hook, with its test on childSessions.
ChildAwareHook(s) ==
  /\ call.fn = "children"
  /\ IF Recognised(s) /\ ChildSessionSkipped(s, call.childSessions)
     THEN /\ lastTurn' = [lastTurn EXCEPT ![s] = TurnLog("skipped", FALSE, FALSE)]
          /\ UNCHANGED <<messages, nextId, cache, disk, completedObservation,
                         observerInFlight, jobs, call>>
     ELSE Hook(s, FALSE)

\* The caller goes on with what the call returned or raised.
CallReturns(j) ==
  /\ call.fn = "children"
  /\ \E e \in call.ended :
       /\ j \in 1..Len(jobs) /\ e.id = CallId(j)
       /\ ObserverReply(j, e.reply)

ChildNext ==
  \/ \E s \in Driven, parts \in MsgKinds : HostAppend(s, parts)
  \/ \E parts \in MsgKinds : ChildPrompt(parts)
  \/ \E s \in Sessions : ChildAwareHook(s)
  \/ \E j \in 1..MaxJobs : CallBegins(j)
  \/ \E j \in 1..MaxJobs, reply \in ChildReplies : CallEnds(j, reply)
  \/ \E j \in 1..MaxJobs : CallReturns(j)

ChildInit == PluginInit /\ call = NoChildren

ChildSpec == ChildInit /\ [][ChildNext]_vars

\* C40: an invocation of the hook on the sequence of a session whose id is
\* in childSessions changes nothing: no job is launched, no stored result
\* is applied or discarded, no message is spliced, no memory is loaded; and
\* a call of a capability takes its child session out of childSessions
\* when it ends, whether the prompt returned a result, returned null or
\* raised: the id is in childSessions exactly while a call is open.
C40_ChildSessionsSkipped ==
  call.fn = "children" =>
    /\ (ChildSession \in call.childSessions) = (call.open # {})
    /\ \A j \in 1..Len(jobs) : jobs[j].sessionID # ChildSession
    /\ ChildSession \notin observerInFlight
    /\ completedObservation[ChildSession] = None
    /\ cache[ChildSession] = NoMemory /\ disk[ChildSession] = NoFile
    /\ \A k \in 1..Len(messages[ChildSession]) :
         messages[ChildSession][k].info.id # HintId

\* The hook has just been invoked on the child session's sequence, which
\* holds the prompt, while its call is open; and an earlier call has ended
\* with an error.
C40_Witness ==
  /\ call.fn = "children"
  /\ ChildSession \in call.childSessions
  /\ lastTurn[ChildSession].outcome = "skipped"
  /\ Len(messages[ChildSession]) >= 1
  /\ \E e \in call.ended : e.reply.kind = "throw" \/ e.reply.kind = "null"

====
